---- MODULE Spec2Model ----
(***************************************************************************)
(* A model of process_nclimgrid.py: the variable-attribute resolver        *)
(* (_variable_attributes), the script's main flow (argument dispatch and   *)
(* processing), and the comparison session that computes per-division      *)
(* differences of two variables of a NetCDF dataset and stores them in a   *)
(* "diffs_<index>" variable.                                               *)
(*                                                                         *)
(* Floating-point attribute values are kept in hundredths (-3.09 is -309). *)
(* Data values of the dataset are integers, with NaN a reserved value.     *)
(***************************************************************************)
EXTENDS Integers, Sequences, FiniteSets, TLC

VARIABLES
    resolverCall,     \* arguments of the last call of _variable_attributes
    resolverResult,   \* its outcome: a returned dictionary or a raised error
    mpc,              \* main flow: position of each run of the script
    grid,             \* main flow: the --grid argument of each run
    ingested,         \* main flow: the ingest each run has invoked ("none" if none)
    raised,           \* main flow: the exception that ended each run ("none" if none)
    store,            \* the NetCDF file: division list, time size, variables
    created,          \* how many times createVariable was called, per variable name
    lock,             \* the module-level multiprocessing lock (TRUE when held)
    pc,               \* comparison session: position of each run
    label_i,          \* comparison session: position in comparison_arrays
    division_index,   \* comparison session: loop index over the divisions
    diffs,            \* comparison session: the diffs dictionary of each run
    differences,      \* comparison session: the last computed difference array
    log               \* comparison session: size-mismatch messages of each run

vars == <<resolverCall, resolverResult, mpc, grid, ingested, raised, store,
          created, lock, pc, label_i, division_index, diffs, differences, log>>

resolverVars == <<resolverCall, resolverResult>>
mainVars == <<mpc, grid, ingested, raised>>
sessionVars == <<store, created, lock, pc, label_i, division_index, diffs,
                 differences, log>>

-----------------------------------------------------------------------------
(* Bounds *)

MaxMonths == 100
MaxDivisions == 2
MaxTime == 2

-----------------------------------------------------------------------------
(* Python values *)

\* months=None: the default of the months parameter
None == -1

\* np.NaN: an invalid data value, and the fill value of a created variable
NaN == -999

Digit(d) ==
    CASE d = 0 -> "0" [] d = 1 -> "1" [] d = 2 -> "2" [] d = 3 -> "3"
      [] d = 4 -> "4" [] d = 5 -> "5" [] d = 6 -> "6" [] d = 7 -> "7"
      [] d = 8 -> "8" [] d = 9 -> "9"

RECURSIVE NatStr(_)
NatStr(n) == IF n < 10 THEN Digit(n) ELSE NatStr(n \div 10) \o Digit(n % 10)

\* str(months)
str(m) == IF m = None THEN "None" ELSE NatStr(m)

\* s.zfill(width), for a string without a sign
RECURSIVE zfill(_, _)
zfill(s, width) == IF Len(s) >= width THEN s ELSE zfill("0" \o s, width)

-----------------------------------------------------------------------------
(* _variable_attributes *)

FixedNames == {"pet", "pdsi", "scpdsi", "phdi", "pmdi", "zindex"}
ScaledNames == {"pnp", "spi_gamma", "spi_pearson", "spei_gamma", "spei_pearson"}
SupportedNames == FixedNames \cup ScaledNames

variable_name_nopad(index_name, months) == index_name \o "_" \o str(months)

\* variable_name = index_name + '_{}'.format(str(months).zfill(2))
variable_name(index_name, months) == index_name \o "_" \o zfill(str(months), 2)

Returned(attributes) == [kind |-> "return", value |-> attributes]

unsupported_fallthrough(index_name) ==
    Returned([standard_name |-> index_name])

\* the final else: log the message and raise ValueError(message)
unsupported(index_name) ==
    [kind |-> "raise", exception |-> "ValueError",
     message |-> index_name \o " is an unsupported index type"]

PalmerAttributes(name, long) ==
    [standard_name |-> name, long_name |-> long,
     valid_min |-> -1000, valid_max |-> 1000]

SpiAttributes(name, long, months) ==
    [standard_name |-> name,
     long_name |-> long \o str(months) \o "-month scale",
     valid_min |-> -309, valid_max |-> 309]

variable_attributes(index_name, months) ==
    IF index_name = "pet" THEN
        Returned([standard_name |-> "pet",
                  long_name |-> "Potential Evapotranspiration (PET), from Thornthwaite's equation",
                  valid_min |-> 0, valid_max |-> 200000,
                  units |-> "millimeter"])
    ELSE IF index_name = "pdsi" THEN
        Returned(PalmerAttributes("pdsi", "Palmer Drought Severity Index (PDSI)"))
    ELSE IF index_name = "scpdsi" THEN
        Returned(PalmerAttributes("scpdsi", "Self-calibrated Palmer Drought Severity Index (PDSI)"))
    ELSE IF index_name = "phdi" THEN
        Returned(PalmerAttributes("phdi", "Palmer Hydrological Drought Index (PHDI)"))
    ELSE IF index_name = "pmdi" THEN
        Returned(PalmerAttributes("pmdi", "Palmer Modified Drought Index (PMDI)"))
    ELSE IF index_name = "zindex" THEN
        Returned(PalmerAttributes("zindex", "Palmer Z-Index"))
    ELSE
        LET name == variable_name(index_name, months) IN
        IF index_name = "pnp" THEN
            Returned([standard_name |-> name,
                      long_name |-> "Percent average precipitation, " \o str(months) \o "-month scale",
                      valid_min |-> 0, valid_max |-> 1000,
                      units |-> "percent of average"])
        ELSE IF index_name = "spi_gamma" THEN
            Returned(SpiAttributes(name, "SPI (Gamma), ", months))
        ELSE IF index_name = "spi_pearson" THEN
            Returned(SpiAttributes(name, "SPI (Pearson), ", months))
        ELSE IF index_name = "spei_gamma" THEN
            Returned(SpiAttributes(name, "SPEI (Gamma), ", months))
        ELSE IF index_name = "spei_pearson" THEN
            Returned(SpiAttributes(name, "SPEI (Pearson), ", months))
        ELSE
            unsupported(index_name)

\* identifiers and time scales the resolver is called with
UnsupportedSamples == {"bogus_index", "spi", "PDSI", ""}
IndexNames == SupportedNames \cup UnsupportedSamples
MonthsInputs == {None} \cup (0 .. MaxMonths)

NoCall == [kind |-> "none"]

\* one call of _variable_attributes with the arguments chosen
Resolve ==
    /\ resolverResult = NoCall
    /\ resolverResult' = variable_attributes(resolverCall.index_name, resolverCall.months)
    /\ UNCHANGED <<resolverCall, mainVars, sessionVars>>

-----------------------------------------------------------------------------
(* The dataset and the comparison session *)

Runs == {1, 2}

\* comparison_arrays, in the order the dictionary is iterated
comparison_arrays ==
    << [index |-> "PDSI",    reference |-> "wrcc_pdsi", candidate |-> "pdsi"],
       [index |-> "PHDI",    reference |-> "wrcc_phdi", candidate |-> "phdi"],
       [index |-> "PMDI",    reference |-> "wrcc_pmdi", candidate |-> "pmdi"],
       [index |-> "Z-Index", reference |-> "cmb_zndx",  candidate |-> "zindex"] >>

Labels == 1 .. Len(comparison_arrays)

\* diff_variable_name = 'diffs_' + index
diff_variable_name(j) == "diffs_" \o comparison_arrays[j].index

DiffNames == {diff_variable_name(j) : j \in Labels}

InputNames == {comparison_arrays[j].reference : j \in Labels}
                  \cup {comparison_arrays[j].candidate : j \in Labels}

\* (reference, candidate) values a cell of the dataset is drawn from
Cells == << [reference |-> 1,   candidate |-> 2],
            [reference |-> NaN, candidate |-> 1],
            [reference |-> 3,   candidate |-> NaN],
            [reference |-> 2,   candidate |-> 2] >>

Cell(k, j, t) == Cells[((k + j + t) % Len(Cells)) + 1]

\* the second dimension of the two variables of label j; the script does not
\* validate that it is the time dimension
RowLength(j) == ((j - 1) % MaxTime) + 1

\* division identifier lists: 101.., the ordinals, the ordinals reversed
DivisionLists(n) ==
    { [i \in 1 .. n |-> 100 + i], [i \in 1 .. n |-> i - 1], [i \in 1 .. n |-> n - i] }

StaleRow(T) == [t \in 1 .. T |-> 7]

GeneratedStore(n, T, ids, pattern, pre) ==
    [division |-> ids,
     times_size |-> T,
     variables |->
        [name \in InputNames \cup (IF pre THEN {diff_variable_name(1), diff_variable_name(4)} ELSE {}) |->
            IF name \in DiffNames
            THEN [i \in 1 .. n |-> StaleRow(T)]
            ELSE LET j == CHOOSE l \in Labels :
                              name \in {comparison_arrays[l].reference,
                                        comparison_arrays[l].candidate}
                 IN [i \in 1 .. n |->
                        [t \in 1 .. RowLength(j) |->
                            IF name = comparison_arrays[j].reference
                            THEN Cell(pattern[i], j, t).reference
                            ELSE Cell(pattern[i], j, t).candidate]]]]

\* divisions [101, 102], time size 4, cmb_zndx and zindex as in the end-to-end scenario
ExampleStore ==
    [division |-> <<101, 102>>,
     times_size |-> 4,
     variables |->
        [name \in InputNames |->
            IF name = "cmb_zndx" THEN << <<1, 2, 3, 4>>, <<5, 6, 7, 8>> >>
            ELSE IF name = "zindex" THEN << <<1, 1, 2, 5>>, <<5, 6, 7, 9>> >>
            ELSE << <<0, 0, 0, 0>>, <<0, 0, 0, 0>> >>]]

Stores ==
    {ExampleStore} \cup
    UNION { { GeneratedStore(n, T, ids, pattern, pre) :
                  T \in 1 .. MaxTime, ids \in DivisionLists(n),
                  pattern \in [1 .. n -> 1 .. Len(Cells)], pre \in BOOLEAN }
            : n \in 1 .. MaxDivisions }

\* np.ma.masked_invalid(row)
masked_invalid(row) ==
    [data |-> row, mask |-> [t \in 1 .. Len(row) |-> row[t] = NaN]]

ma_subtract_swapped(a, b) ==
    [data |-> [t \in 1 .. Len(a.data) |->
                  IF a.mask[t] \/ b.mask[t] THEN a.data[t] ELSE b.data[t] - a.data[t]],
     mask |-> [t \in 1 .. Len(a.data) |-> a.mask[t] \/ b.mask[t]]]

ma_subtract_leftmask(a, b) ==
    [data |-> [t \in 1 .. Len(a.data) |-> a.data[t] - b.data[t]],
     mask |-> a.mask]

\* a - b on masked arrays of one length: masked where either operand is masked
ma_subtract(a, b) ==
    [data |-> [t \in 1 .. Len(a.data) |->
                  IF a.mask[t] \/ b.mask[t] THEN a.data[t] ELSE a.data[t] - b.data[t]],
     mask |-> [t \in 1 .. Len(a.data) |-> a.mask[t] \/ b.mask[t]]]

\* differences = data_CMB - data_NIDIS for row division_index of label j
row_differences(st, j, i) ==
    LET data_CMB   == masked_invalid(st.variables[comparison_arrays[j].reference][i + 1])
        data_NIDIS == masked_invalid(st.variables[comparison_arrays[j].candidate][i + 1])
    IN ma_subtract(data_CMB, data_NIDIS)

\* d[k] = v on a dictionary
Put(d, k, v) == [x \in (DOMAIN d) \cup {k} |-> IF x = k THEN v ELSE d[x]]

\* the values a masked array leaves in a NetCDF variable: masked entries take the fill value
Stored(array) ==
    [t \in 1 .. Len(array.data) |-> IF array.mask[t] THEN NaN ELSE array.data[t]]

size(array) == Len(array.data)

NDivisions == Len(store.division)

EmptyArray == [data |-> <<>>, mask |-> <<>>]

InSession(p) == pc[p] \in {"compute", "provision", "write", "close"}

\* with netCDF4.Dataset(args.out_file, 'a') as dataset: and the head of both loops
Open(p) ==
    /\ pc[p] = "start"
    /\ pc' = [pc EXCEPT ![p] = "compute"]
    /\ label_i' = [label_i EXCEPT ![p] = 1]
    /\ division_index' = [division_index EXCEPT ![p] = 0]
    /\ diffs' = [diffs EXCEPT ![p] = <<>>]
    /\ UNCHANGED <<store, created, lock, differences, log, resolverVars, mainVars>>

\* one run of the script at a time
OpenAlone(p) ==
    /\ \A q \in Runs \ {p} : ~InSession(q)
    /\ Open(p)

\* one iteration of the loop over the divisions that computes the differences
ComputeDivision(p) ==
    /\ pc[p] = "compute"
    /\ division_index[p] < NDivisions
    /\ LET i == division_index[p]
           division_id == store.division[i + 1]
           d == row_differences(store, label_i[p], i)
       IN /\ differences' = [differences EXCEPT ![p] = d]
          /\ diffs' = [diffs EXCEPT ![p] = Put(Put(@, i, d), division_id, d)]
          /\ division_index' = [division_index EXCEPT ![p] = i + 1]
          /\ pc' = [pc EXCEPT ![p] = IF i + 1 = NDivisions THEN "provision" ELSE "compute"]
    /\ UNCHANGED <<store, created, lock, label_i, log, resolverVars, mainVars>>

\* a plot cannot be saved: the exception leaves the with block and the script
PlotFails(p) ==
    /\ pc[p] = "compute"
    /\ division_index[p] < NDivisions
    /\ pc' = [pc EXCEPT ![p] = "failed"]
    /\ UNCHANGED <<store, created, lock, label_i, division_index, diffs,
                   differences, log, resolverVars, mainVars>>

FillRows(st) == [i \in 1 .. Len(st.division) |-> [t \in 1 .. st.times_size |-> NaN]]

name_in_use_never(st, name) == FALSE

\* if diff_variable_name in dataset.variables.keys()
name_in_use(st, name) == name \in DOMAIN st.variables

\* dataset.createVariable(name, type, ('division', 'time',), fill_value=np.NaN)
createVariable(st, name) ==
    [st EXCEPT !.variables =
        [n \in (DOMAIN st.variables) \cup {name} |->
            IF n = name THEN FillRows(st) ELSE st.variables[n]]]

\* the variable of this index is looked up, or created when its name is not in use
Provision(p) ==
    /\ pc[p] = "provision"
    /\ LET name == diff_variable_name(label_i[p])
       IN IF name_in_use(store, name)
          THEN UNCHANGED <<store, created>>
          ELSE /\ store' = createVariable(store, name)
               /\ created' = [created EXCEPT ![name] = @ + 1]
    /\ division_index' = [division_index EXCEPT ![p] = 0]
    /\ pc' = [pc EXCEPT ![p] = "write"]
    /\ UNCHANGED <<lock, label_i, diffs, differences, log, resolverVars, mainVars>>

\* the end of one iteration of the write loop: next division, next index, or the end
Advance(p) ==
    LET i == division_index[p] IN
    IF i + 1 < NDivisions THEN
        /\ division_index' = [division_index EXCEPT ![p] = i + 1]
        /\ UNCHANGED <<pc, label_i, diffs>>
    ELSE IF label_i[p] < Len(comparison_arrays) THEN
        /\ label_i' = [label_i EXCEPT ![p] = @ + 1]
        /\ diffs' = [diffs EXCEPT ![p] = <<>>]
        /\ division_index' = [division_index EXCEPT ![p] = 0]
        /\ pc' = [pc EXCEPT ![p] = "compute"]
    ELSE
        /\ pc' = [pc EXCEPT ![p] = "close"]
        /\ UNCHANGED <<label_i, diffs, division_index>>

has_expected_size_always(array, times_size) == TRUE

\* if data_array.size == times_size
has_expected_size(array, times_size) == size(array) = times_size

\* variable[division_index, :] = np.reshape(data_array, (1, times_size))
write_row(st, name, i, array) ==
    [st EXCEPT !.variables[name][i + 1] = Stored(array)]

Message(p) ==
    [index |-> division_index[p], expected |-> store.times_size,
     actual |-> size(diffs[p][division_index[p]])]

\* the array of this division has times_size values: it is written
WriteRow(p) ==
    /\ pc[p] = "write"
    /\ division_index[p] < NDivisions
    /\ division_index[p] \in DOMAIN diffs[p]
    /\ has_expected_size(diffs[p][division_index[p]], store.times_size)
    /\ store' = write_row(store, diff_variable_name(label_i[p]),
                          division_index[p], diffs[p][division_index[p]])
    /\ Advance(p)
    /\ UNCHANGED <<created, lock, differences, log, resolverVars, mainVars>>

\* the array has another size: a message is logged, nothing is written
SkipRow(p) ==
    /\ pc[p] = "write"
    /\ division_index[p] < NDivisions
    /\ division_index[p] \in DOMAIN diffs[p]
    /\ ~has_expected_size(diffs[p][division_index[p]], store.times_size)
    /\ log' = [log EXCEPT ![p] = @ \cup {Message(p)}]
    /\ Advance(p)
    /\ UNCHANGED <<store, created, lock, differences, resolverVars, mainVars>>

\* the end of the with block: the dataset is closed
Close(p) ==
    /\ pc[p] = "close"
    /\ pc' = [pc EXCEPT ![p] = "done"]
    /\ UNCHANGED <<store, created, lock, label_i, division_index, diffs,
                   differences, log, resolverVars, mainVars>>

SessionStep(p) ==
    \/ ComputeDivision(p)
    \/ PlotFails(p)
    \/ Provision(p)
    \/ WriteRow(p)
    \/ SkipRow(p)
    \/ Close(p)

-----------------------------------------------------------------------------
(* The main flow of the script, up to the comparison session *)

GridValues == {"nclimgrid", "prism", "other", ""}

\* args = parser.parse_args()
ParseArgs(p) ==
    /\ mpc[p] = "start"
    /\ \E g \in GridValues : grid' = [grid EXCEPT ![p] = g]
    /\ mpc' = [mpc EXCEPT ![p] = "dispatch"]
    /\ UNCHANGED <<ingested, raised, resolverVars, sessionVars>>

\* if args.grid == 'nclimgrid': ingest_nclimgrid.ingest_to_netcdf(...) returns
IngestNclimgrid(p) ==
    /\ mpc[p] = "dispatch"
    /\ grid[p] = "nclimgrid"
    /\ ingested' = [ingested EXCEPT ![p] = "nclimgrid"]
    /\ mpc' = [mpc EXCEPT ![p] = "process"]
    /\ UNCHANGED <<grid, raised, resolverVars, sessionVars>>

\* ... or raises
IngestNclimgridRaises(p) ==
    /\ mpc[p] = "dispatch"
    /\ grid[p] = "nclimgrid"
    /\ ingested' = [ingested EXCEPT ![p] = "nclimgrid"]
    /\ raised' = [raised EXCEPT ![p] = "ingest"]
    /\ mpc' = [mpc EXCEPT ![p] = "except"]
    /\ UNCHANGED <<grid, resolverVars, sessionVars>>

\* elif args.grid == 'prism': the name ingest_prism is not defined in the module
IngestPrism(p) ==
    /\ mpc[p] = "dispatch"
    /\ grid[p] = "prism"
    /\ raised' = [raised EXCEPT ![p] = "NameError: ingest_prism"]
    /\ mpc' = [mpc EXCEPT ![p] = "except"]
    /\ UNCHANGED <<grid, ingested, resolverVars, sessionVars>>

\* neither branch is taken: the script goes on to the processing
NoIngest(p) ==
    /\ mpc[p] = "dispatch"
    /\ grid[p] \notin {"nclimgrid", "prism"}
    /\ mpc' = [mpc EXCEPT ![p] = "process"]
    /\ UNCHANGED <<grid, ingested, raised, resolverVars, sessionVars>>

\* grid_processor = GridProcessor(...): the name GridProcessor is neither imported
\* nor defined in the module, so its evaluation raises NameError
Process(p) ==
    /\ mpc[p] = "process"
    /\ raised' = [raised EXCEPT ![p] = "NameError: GridProcessor"]
    /\ mpc' = [mpc EXCEPT ![p] = "except"]
    /\ UNCHANGED <<grid, ingested, resolverVars, sessionVars>>

\* except Exception: the failure is logged and raised again
Except(p) ==
    /\ mpc[p] = "except"
    /\ mpc' = [mpc EXCEPT ![p] = "exit"]
    /\ UNCHANGED <<grid, ingested, raised, resolverVars, sessionVars>>

MainStep(p) ==
    \/ ParseArgs(p)
    \/ IngestNclimgrid(p)
    \/ IngestNclimgridRaises(p)
    \/ IngestPrism(p)
    \/ NoIngest(p)
    \/ Process(p)
    \/ Except(p)

-----------------------------------------------------------------------------
(* Specifications *)

MainIdle ==
    /\ mpc = [p \in Runs |-> "idle"]
    /\ grid = [p \in Runs |-> ""]
    /\ ingested = [p \in Runs |-> "none"]
    /\ raised = [p \in Runs |-> "none"]

ResolverIdle ==
    /\ resolverCall = [index_name |-> "", months |-> None]
    /\ resolverResult = NoCall

ResolverCalled ==
    /\ resolverCall \in [index_name : IndexNames, months : MonthsInputs]
    /\ resolverResult = NoCall

SessionIdle(st) ==
    /\ store = st
    /\ created = [name \in DiffNames |-> 0]
    /\ lock = FALSE
    /\ pc = [p \in Runs |-> "start"]
    /\ label_i = [p \in Runs |-> 0]
    /\ division_index = [p \in Runs |-> 0]
    /\ diffs = [p \in Runs |-> <<>>]
    /\ differences = [p \in Runs |-> EmptyArray]
    /\ log = [p \in Runs |-> {}]

\* the comparison sessions of the script's runs, one run after the other
Init ==
    /\ \E st \in Stores : SessionIdle(st)
    /\ MainIdle
    /\ ResolverIdle

Next == \E p \in Runs : OpenAlone(p) \/ SessionStep(p)

Spec == Init /\ [][Next]_vars

\* the comparison sessions of two runs of the script on one file at once
NextConcurrent == \E p \in Runs : Open(p) \/ SessionStep(p)

SpecConcurrent == Init /\ [][NextConcurrent]_vars

\* calls of _variable_attributes
InitResolver ==
    /\ SessionIdle(ExampleStore)
    /\ MainIdle
    /\ ResolverCalled

NextResolver == Resolve

SpecResolver == InitResolver /\ [][NextResolver]_vars

\* runs of the script from its first statement
InitMain ==
    /\ SessionIdle(ExampleStore)
    /\ ResolverIdle
    /\ mpc = [p \in Runs |-> "start"]
    /\ grid = [p \in Runs |-> ""]
    /\ ingested = [p \in Runs |-> "none"]
    /\ raised = [p \in Runs |-> "none"]

NextMain == \E p \in Runs : MainStep(p)

SpecMain == InitMain /\ [][NextMain]_vars

-----------------------------------------------------------------------------
(* Properties of the comparison session *)

\* run p has just computed the differences of division i of its current index
JustComputed(p, i) ==
    /\ pc[p] \in {"compute", "provision"}
    /\ division_index[p] = i + 1

ReferenceRow(p, i) == store.variables[comparison_arrays[label_i[p]].reference][i + 1]
CandidateRow(p, i) == store.variables[comparison_arrays[label_i[p]].candidate][i + 1]

InExample(p) ==
    /\ store.division = ExampleStore.division
    /\ store.times_size = ExampleStore.times_size
    /\ \A name \in InputNames : store.variables[name] = ExampleStore.variables[name]
    /\ label_i[p] = 4

\* C1 (as amended): where both values are present, the difference computed for
\* division i at time step t is reference[i][t] minus candidate[i][t]; in the
\* end-to-end scenario the differences are [0,1,1,-1] and [0,0,0,-1].
C1_DifferenceIsReferenceMinusCandidate ==
    \A p \in Runs : \A i \in 0 .. NDivisions - 1 :
        JustComputed(p, i) =>
            /\ diffs[p][i] = differences[p]
            /\ \A t \in 1 .. Len(ReferenceRow(p, i)) :
                  (ReferenceRow(p, i)[t] # NaN /\ CandidateRow(p, i)[t] # NaN) =>
                      /\ ~differences[p].mask[t]
                      /\ differences[p].data[t] =
                             ReferenceRow(p, i)[t] - CandidateRow(p, i)[t]
            /\ InExample(p) =>
                  differences[p].data = IF i = 0 THEN <<0, 1, 1, -1>> ELSE <<0, 0, 0, -1>>

\* C1 as stated: the difference is candidate minus reference, [0,-1,-1,1] and
\* [0,0,0,1] in the end-to-end scenario.
C1_DifferenceIsCandidateMinusReference ==
    \A p \in Runs : \A i \in 0 .. NDivisions - 1 :
        JustComputed(p, i) =>
            /\ \A t \in 1 .. Len(ReferenceRow(p, i)) :
                  (ReferenceRow(p, i)[t] # NaN /\ CandidateRow(p, i)[t] # NaN) =>
                      differences[p].data[t] =
                          CandidateRow(p, i)[t] - ReferenceRow(p, i)[t]
            /\ InExample(p) =>
                  differences[p].data = IF i = 0 THEN <<0, -1, -1, 1>> ELSE <<0, 0, 0, 1>>

C1_Witness ==
    /\ InExample(1)
    /\ JustComputed(1, 1)
    /\ diffs[1][0].data = <<0, 1, 1, -1>>
    /\ differences[1].data = <<0, 0, 0, -1>>

\* C5: where the reference or the candidate value of division i at time step t
\* is invalid, the computed difference is masked there, and the value it leaves
\* in a variable is the fill value, not a number.
C5_MissingPropagates ==
    \A p \in Runs : \A i \in 0 .. NDivisions - 1 :
        JustComputed(p, i) =>
            \A t \in 1 .. Len(ReferenceRow(p, i)) :
                (ReferenceRow(p, i)[t] = NaN \/ CandidateRow(p, i)[t] = NaN) =>
                    /\ differences[p].mask[t]
                    /\ Stored(differences[p])[t] = NaN

C5_Witness ==
    /\ JustComputed(1, 0)
    /\ Len(ReferenceRow(1, 0)) = 2
    /\ ReferenceRow(1, 0)[1] # NaN /\ CandidateRow(1, 0)[1] = NaN
    /\ ReferenceRow(1, 0)[2] # NaN /\ CandidateRow(1, 0)[2] # NaN
    /\ differences[1].mask = <<TRUE, FALSE>>

\* C6: createVariable is called at most once for each diffs_<index> name, and
\* once one run has persisted its differences, the steps of another run with the
\* same differences create nothing and leave every stored value as it was.
C6_PersistIdempotent ==
    /\ [](\A name \in DiffNames : created[name] <= 1)
    /\ [][(\E q \in Runs : pc[q] = "done") => (store' = store /\ created' = created)]_vars

C6_Witness ==
    /\ pc[1] = "done"
    /\ pc[2] = "done"
    /\ created[diff_variable_name(4)] = 1
    /\ store.variables[diff_variable_name(4)][1] = Stored(diffs[2][0])
    /\ \E t \in 1 .. store.times_size : store.variables[diff_variable_name(4)][1][t] # NaN

\* run p takes a step of its write loop
WriteStep(p) ==
    /\ pc[p] = "write"
    /\ <<pc[p], label_i[p], division_index[p]>>' # <<pc[p], label_i[p], division_index[p]>>

\* C7: in the write loop, a division whose array has not the size of the time
\* dimension leaves the dataset unchanged, raises nothing, logs the division
\* index with the expected and the actual size, and the loop goes on; a division
\* whose array has that size is written, whatever was skipped before it.
C7_MismatchSkipped ==
    [][\A p \in Runs :
          WriteStep(p) =>
              LET i == division_index[p]
                  array == diffs[p][i]
              IN IF Len(array.data) # store.times_size
                 THEN /\ store' = store
                      /\ [index |-> i, expected |-> store.times_size,
                          actual |-> Len(array.data)] \in log'[p]
                      /\ pc'[p] \in {"write", "compute", "close"}
                 ELSE /\ store'.variables[diff_variable_name(label_i[p])][i + 1]
                             = Stored(array)
                      /\ log' = log]_vars

C7_Witness ==
    /\ pc[1] = "done"
    /\ store.times_size = 2
    /\ [index |-> 0, expected |-> 2, actual |-> 1] \in log[1]
    /\ diff_variable_name(1) \in DOMAIN store.variables
    /\ store.variables[diff_variable_name(1)][1] = StaleRow(2)
    /\ store.variables[diff_variable_name(4)][1] = Stored(diffs[1][0])
    /\ store.variables[diff_variable_name(4)][1] # StaleRow(2)

\* C10 as stated: after a run in which the arrays of an index have the size of
\* the time dimension, row i of its diffs variable is the difference of row i of
\* the reference and row i of the candidate, for every list of identifiers.
C10_RowsBelongToTheirDivision ==
    \A p \in Runs :
        pc[p] = "done" =>
            \A j \in Labels : \A i \in 0 .. NDivisions - 1 :
                RowLength(j) = store.times_size =>
                    store.variables[diff_variable_name(j)][i + 1]
                        = Stored(row_differences(store, j, i))

\* C2 as stated: at most one run is inside the open-and-write section of a file.
C2_WriteSectionsExclusive ==
    \A p \in Runs : \A q \in Runs \ {p} : ~(InSession(p) /\ InSession(q))

-----------------------------------------------------------------------------
(* Properties of _variable_attributes *)

Called == resolverResult # NoCall

TwoDigits(m) == Digit(m \div 10) \o Digit(m % 10)

ExpectedMin(n) ==
    IF n \in {"pet", "pnp"} THEN 0
    ELSE IF n \in FixedNames THEN -1000 ELSE -309

ExpectedMax(n) ==
    IF n = "pet" THEN 200000
    ELSE IF n \in FixedNames \cup {"pnp"} THEN 1000 ELSE 309

ExpectedName(n, m) == IF n \in FixedNames THEN n ELSE n \o "_" \o TwoDigits(m)

\* the calls C4 is about: a fixed-name index, or a scaled one with a scale of 1..99
InDomain ==
    \/ resolverCall.index_name \in FixedNames
    \/ resolverCall.index_name \in ScaledNames /\ resolverCall.months \in 1 .. 99

\* C3: for an identifier outside the supported set, with or without a time
\* scale, the call raises an error whose message carries the identifier, and
\* returns no attributes.
C3_UnsupportedRaises ==
    (Called /\ resolverCall.index_name \notin SupportedNames) =>
        /\ resolverResult.kind = "raise"
        /\ resolverResult.exception = "ValueError"
        /\ resolverResult.message
               = resolverCall.index_name \o " is an unsupported index type"

C3_Witness ==
    /\ resolverCall = [index_name |-> "bogus_index", months |-> None]
    /\ resolverResult.kind = "raise"

\* C4 (as amended): the returned dictionary has no variable_name entry; its
\* standard_name is the identifier for the fixed-name indices and identifier,
\* "_" and the two-digit zero-padded scale for the scaled ones, and valid_min
\* and valid_max are [0, 2000], [-10, 10], [0, 10] and [-3.09, 3.09].
C4_StandardNameAndRange ==
    (Called /\ InDomain) =>
        /\ resolverResult.kind = "return"
        /\ "variable_name" \notin DOMAIN resolverResult.value
        /\ resolverResult.value.standard_name
               = ExpectedName(resolverCall.index_name, resolverCall.months)
        /\ resolverResult.value.valid_min = ExpectedMin(resolverCall.index_name)
        /\ resolverResult.value.valid_max = ExpectedMax(resolverCall.index_name)

\* C4 as stated: the returned record has a variable_name field with that name.
C4_VariableNameField ==
    (Called /\ InDomain) =>
        /\ resolverResult.kind = "return"
        /\ "variable_name" \in DOMAIN resolverResult.value
        /\ resolverResult.value.variable_name
               = ExpectedName(resolverCall.index_name, resolverCall.months)
        /\ resolverResult.value.valid_min = ExpectedMin(resolverCall.index_name)
        /\ resolverResult.value.valid_max = ExpectedMax(resolverCall.index_name)

C4_Witness ==
    /\ resolverCall = [index_name |-> "spi_gamma", months |-> 3]
    /\ resolverResult.kind = "return"
    /\ resolverResult.value.standard_name = "spi_gamma_03"
    /\ resolverResult.value.valid_min = -309
    /\ resolverResult.value.valid_max = 309

\* C9 as stated: a call for a scaled index without a time scale returns nothing.
C9_ScaleRequired ==
    (Called /\ resolverCall.index_name \in ScaledNames /\ resolverCall.months = None) =>
        resolverResult.kind # "return"

-----------------------------------------------------------------------------
(* Properties of the main flow *)

\* C8 as stated: a run whose --grid is neither "nclimgrid" nor "prism" invokes
\* no ingest, gets no error from the dispatch, and has opened the dataset for
\* the comparison by the time it ends.
C8_UnrecognizedGridReachesComparison ==
    \A p \in Runs :
        (mpc[p] = "exit" /\ grid[p] \notin {"nclimgrid", "prism"}) =>
            /\ ingested[p] = "none"
            /\ pc[p] # "start"

====
